---- MODULE Spec2Model ----
(***************************************************************************)
(* Iterative multiview CCA solvers of cca_zoo: ElasticCCA, SCCA_IPLS and   *)
(* SCCA_Span (src/cca_zoo/models/_iterative).                              *)
(*                                                                         *)
(* Numbers are exact rationals <<num, den>> with den > 0; <<0, 0>> is the  *)
(* IEEE NaN that 0/0 produces.  Every sample-space vector is written in    *)
(* an orthogonal basis E_1, E_2, ... of +-1 patterns with E_j . E_j = n,   *)
(* so a view is the sequence of its column scales (column j = x_j * E_j),  *)
(* view @ w is the coordinate-wise product and norm(v)/sqrt(n) is the      *)
(* Euclidean norm of the coordinates.                                      *)
(***************************************************************************)
EXTENDS Integers, Sequences, FiniteSets, TLC

(* ---------------------------- bounds ----------------------------------- *)
MaxViews == 3
MaxIter == 2
NSamples == 4

(* ------------------------- exact arithmetic ---------------------------- *)
Abs(i) == IF i < 0 THEN -i ELSE i

RECURSIVE Gcd(_, _)
Gcd(a, b) == IF b = 0 THEN a ELSE Gcd(b, a % b)

NaN == <<0, 0>>

IsNaN(q) == q[2] = 0

Rat(num, den) ==
    IF den = 0 THEN NaN
    ELSE LET g == Gcd(Abs(num), Abs(den))
             s == IF den < 0 THEN -1 ELSE 1
         IN  <<(s * num) \div g, (s * den) \div g>>

R(i) == <<i, 1>>

Half == <<1, 2>>

Add(p, q) == IF IsNaN(p) \/ IsNaN(q) THEN NaN
             ELSE LET g == Gcd(p[2], q[2])
                  IN  Rat(p[1] * (q[2] \div g) + q[1] * (p[2] \div g),
                          (p[2] \div g) * q[2])

Neg(p) == IF IsNaN(p) THEN NaN ELSE <<-p[1], p[2]>>

Sub(p, q) == Add(p, Neg(q))

Mul(p, q) == IF IsNaN(p) \/ IsNaN(q) THEN NaN
             ELSE LET g == Gcd(Abs(p[1]), q[2])
                      h == Gcd(Abs(q[1]), p[2])
                  IN  Rat((p[1] \div g) * (q[1] \div h),
                          (p[2] \div h) * (q[2] \div g))

\* IEEE division: x/0 is not finite; only 0/0 arises in the code modelled.
Div(p, q) == IF IsNaN(p) \/ IsNaN(q) THEN NaN
             ELSE IF q[1] = 0 THEN NaN
             ELSE Mul(p, IF q[1] < 0 THEN <<-q[2], -q[1]>> ELSE <<q[2], q[1]>>)

\* comparisons with NaN are false, as in IEEE arithmetic
Gt(p, q) == ~IsNaN(p) /\ ~IsNaN(q) /\ Sub(p, q)[1] > 0

Lt(p, q) == Gt(q, p)

IsZero(p) == ~IsNaN(p) /\ p[1] = 0

RAbs(p) == IF IsNaN(p) THEN NaN ELSE <<Abs(p[1]), p[2]>>

RECURSIVE SumSeq(_)
SumSeq(s) == IF s = <<>> THEN R(0) ELSE Add(Head(s), SumSeq(Tail(s)))

\* integer square root by bisection: the k in lo..hi with k*k = i, else -1
RECURSIVE SqrtSearch(_, _, _)
SqrtSearch(i, lo, hi) ==
    IF lo > hi THEN -1
    ELSE LET mid == (lo + hi) \div 2
         IN  IF mid * mid = i THEN mid
             ELSE IF mid * mid < i THEN SqrtSearch(i, mid + 1, hi)
             ELSE SqrtSearch(i, lo, mid - 1)

ISqrt(i) == SqrtSearch(i, 0, IF i < 46340 THEN i ELSE 46340)

IsSquare(i) == ISqrt(i) >= 0

\* exact square root of a rational that is a perfect square

IsSquareRat(p) == ~IsNaN(p) /\ p[1] >= 0 /\ IsSquare(p[1]) /\ IsSquare(p[2])

RSqrt(p) == CASE IsNaN(p) -> NaN
              [] IsSquareRat(p) -> <<ISqrt(p[1]), ISqrt(p[2])>>

(* ------------------------------ vectors -------------------------------- *)
\* a function on 1..n as an explicit sequence
AsSeq(f) == f \o <<>>

VScale(v, q) == AsSeq([j \in DOMAIN v |-> Mul(v[j], q)])

VDivide(v, q) == AsSeq([j \in DOMAIN v |-> Div(v[j], q)])

VSub(u, v) == AsSeq([j \in DOMAIN u |-> Sub(u[j], v[j])])

Dot(u, v) == SumSeq(AsSeq([j \in DOMAIN u |-> Mul(u[j], v[j])]))

\* np.linalg.norm(v) of a coordinate vector
VNorm(v) == RSqrt(Dot(v, v))

VNorm1(v) == SumSeq(AsSeq([j \in DOMAIN v |-> RAbs(v[j])]))

VHasNaN(v) == \E j \in DOMAIN v : IsNaN(v[j])

VIsZero(v) == \A j \in DOMAIN v : IsZero(v[j])

\* view @ w for a view with orthogonal columns x_j * E_j
MatVec(view, w) == AsSeq([j \in DOMAIN view |-> Mul(view[j], w[j])])

\* scores.mean(axis=0)
MeanRows(rows) ==
    AsSeq([j \in DOMAIN rows[1] |->
             Div(SumSeq(AsSeq([i \in DOMAIN rows |-> rows[i][j]])), R(Len(rows)))])

\* Python sequence indexing, negative indices counting from the end
PyIndex(s, k) == IF k < 0 THEN s[Len(s) + k + 1] ELSE s[k + 1]

(* ------------------- per-view hyperparameter values --------------------- *)
\* A hyperparameter is None, a scalar, or a sequence.
None == [kind |-> "None"]

Scalar(v) == [kind |-> "scalar", val |-> v]

List(s) == [kind |-> "list", val |-> s]

Repeat(v, n) == AsSeq([i \in 1..n |-> v])

\* A raised exception: the Python exception type, its category in the error
\* taxonomy, and the view it names (-1 when it names none).  Invalid
\* hyperparameters are raised as ValueError.
ConfigurationError ==
    [exc |-> "ValueError", kind |-> "ConfigurationError", view |-> -1]

DegenerateWeightsError(view) ==
    [exc |-> "ValueError", kind |-> "DegenerateWeightsError", view |-> view]

\* sklearn's input validation rejects a target that contains NaN
NaNInputError ==
    [exc |-> "ValueError", kind |-> "NaNInput", view |-> -1]

NoError == [exc |-> "none", kind |-> "none", view |-> -1]

\* cca_zoo.utils._process_parameter: None -> default in every position,
\* scalar -> broadcast, sequence -> its length must equal n_views.
_process_parameter(parameter, default, n_views) ==
    CASE parameter.kind = "None" -> [ok |-> TRUE, val |-> List(Repeat(default, n_views))]
      [] parameter.kind = "scalar" -> [ok |-> TRUE, val |-> List(Repeat(parameter.val, n_views))]
      [] OTHER -> IF Len(parameter.val) = n_views
                  THEN [ok |-> TRUE, val |-> parameter]
                  ELSE [ok |-> FALSE, val |-> parameter]

(* ----------------------------- constructors ----------------------------- *)
NoLoop == [set |-> FALSE]

\* attributes every estimator object carries in the model
BaseObject(cls, n_views) ==
    [cls |-> cls, n_views |-> n_views,
     c |-> None, tau |-> None, l1_ratio |-> None, positive |-> None,
     maxvar |-> TRUE, stochastic |-> FALSE, warned |-> FALSE,
     regularisation |-> "l0", rank |-> 1, update |-> "unset",
     max_obj |-> <<>>, regressors |-> <<>>, loop |-> NoLoop,
     weights |-> <<>>, scores |-> <<>>, target |-> <<>>, track |-> <<>>,
     err |-> NoError]

\* ElasticCCA.__init__ without the test on positive and stochastic
ElasticCCA_init_no_switch(self, c, l1_ratio, maxvar, stochastic, positive) ==
    [self EXCEPT !.c = c, !.l1_ratio = l1_ratio, !.maxvar = maxvar,
                 !.positive = positive, !.stochastic = stochastic]

\* ElasticCCA.__init__
ElasticCCA_init(self, c, l1_ratio, maxvar, stochastic, positive) ==
    LET switch == positive.kind # "None" /\ stochastic
    IN  [self EXCEPT !.c = c, !.l1_ratio = l1_ratio, !.maxvar = maxvar,
                     !.positive = positive,
                     !.stochastic = IF switch THEN FALSE ELSE stochastic,
                     !.warned = switch]

\* SCCA_IPLS.__init__ without the l1_ratio=1 argument
SCCA_IPLS_init_no_ratio(self, tau, maxvar, stochastic, positive) ==
    ElasticCCA_init([self EXCEPT !.tau = tau], None, None,
                    maxvar, stochastic, positive)

\* SCCA_IPLS.__init__: ElasticCCA.__init__ with l1_ratio=1 and c left None
SCCA_IPLS_init(self, tau, maxvar, stochastic, positive) ==
    ElasticCCA_init([self EXCEPT !.tau = tau], None, Scalar(R(1)),
                    maxvar, stochastic, positive)

\* SCCA_Span.__init__
SCCA_Span_init(self, regularisation, c, rank, positive) ==
    [self EXCEPT !.c = c, !.regularisation = regularisation,
                 !.rank = rank, !.positive = positive]

(* --------------------------- _check_params ------------------------------ *)
Fail(self, e) == [self EXCEPT !.err = e]

\* ElasticCCA._check_params with the l1_ratio line dropped
ElasticCCA_check_params_skip_ratio(self) ==
    LET pc_ == _process_parameter(self.c, R(0), self.n_views)
        pp == _process_parameter(self.positive, FALSE, self.n_views)
    IN  IF ~pc_.ok THEN Fail(self, ConfigurationError)
        ELSE IF ~pp.ok THEN Fail([self EXCEPT !.c = pc_.val], ConfigurationError)
        ELSE [self EXCEPT !.c = pc_.val, !.positive = pp.val]

\* ElasticCCA._check_params: c, then l1_ratio, then positive; the first
\* failing parameter raises and leaves the later ones unprocessed.
ElasticCCA_check_params(self) ==
    LET pc_ == _process_parameter(self.c, R(0), self.n_views)
        pl == _process_parameter(self.l1_ratio, R(0), self.n_views)
        pp == _process_parameter(self.positive, FALSE, self.n_views)
    IN  IF ~pc_.ok THEN Fail(self, ConfigurationError)
        ELSE IF ~pl.ok THEN Fail([self EXCEPT !.c = pc_.val], ConfigurationError)
        ELSE IF ~pp.ok
             THEN Fail([self EXCEPT !.c = pc_.val, !.l1_ratio = pl.val],
                       ConfigurationError)
        ELSE [self EXCEPT !.c = pc_.val, !.l1_ratio = pl.val,
                          !.positive = pp.val]

\* SCCA_IPLS._check_params processing positive with a one-view length
SCCA_IPLS_check_params_short_positive(self) ==
    LET pt == _process_parameter(self.tau, R(0), self.n_views)
        pl == _process_parameter(self.l1_ratio, R(0), self.n_views)
        pp == _process_parameter(self.positive, FALSE, 1)
    IN  IF ~pt.ok THEN Fail(self, ConfigurationError)
        ELSE IF ~pl.ok THEN Fail([self EXCEPT !.tau = pt.val], ConfigurationError)
        ELSE IF ~pp.ok
             THEN Fail([self EXCEPT !.tau = pt.val, !.l1_ratio = pl.val],
                       ConfigurationError)
        ELSE [self EXCEPT !.tau = pt.val, !.l1_ratio = pl.val,
                          !.positive = pp.val]

\* SCCA_IPLS._check_params: tau, then l1_ratio, then positive
SCCA_IPLS_check_params(self) ==
    LET pt == _process_parameter(self.tau, R(0), self.n_views)
        pl == _process_parameter(self.l1_ratio, R(0), self.n_views)
        pp == _process_parameter(self.positive, FALSE, self.n_views)
    IN  IF ~pt.ok THEN Fail(self, ConfigurationError)
        ELSE IF ~pl.ok THEN Fail([self EXCEPT !.tau = pt.val], ConfigurationError)
        ELSE IF ~pp.ok
             THEN Fail([self EXCEPT !.tau = pt.val, !.l1_ratio = pl.val],
                       ConfigurationError)
        ELSE [self EXCEPT !.tau = pt.val, !.l1_ratio = pl.val,
                          !.positive = pp.val]

\* SCCA_Span._check_params with the view-count test after the processing
SCCA_Span_check_params_late_test(self) ==
    LET s0 == [self EXCEPT !.max_obj = R(0)]
        pc_ == _process_parameter(s0.c, R(0), s0.n_views)
        s1 == IF s0.regularisation = "l0"
              THEN [s0 EXCEPT !.update = "support_threshold"]
              ELSE [s0 EXCEPT !.update = "_delta_search"]
        pp == _process_parameter(s1.positive, FALSE, s1.n_views)
    IN  IF ~pc_.ok THEN Fail(s1, ConfigurationError)
        ELSE IF ~pp.ok THEN Fail([s1 EXCEPT !.c = pc_.val], ConfigurationError)
        ELSE IF self.n_views # 2
             THEN Fail([s1 EXCEPT !.c = pc_.val, !.positive = pp.val],
                       ConfigurationError)
        ELSE [s1 EXCEPT !.c = pc_.val, !.positive = pp.val]

\* SCCA_Span._check_params
SCCA_Span_check_params(self) ==
    IF self.n_views # 2 THEN Fail(self, ConfigurationError)
    ELSE
      LET s0 == [self EXCEPT !.max_obj = R(0)]
          pc_ == _process_parameter(s0.c, R(0), s0.n_views)
          s1 == IF s0.regularisation = "l0"
                THEN [s0 EXCEPT !.update = "support_threshold"]
                ELSE IF s0.regularisation = "l1"
                THEN [s0 EXCEPT !.update = "_delta_search"]
                ELSE s0
          pp == _process_parameter(s1.positive, FALSE, s1.n_views)
      IN  IF s0.regularisation \in {"l0", "l1"} /\ ~pc_.ok
          THEN Fail(s1, ConfigurationError)
          ELSE LET s2 == IF s0.regularisation \in {"l0", "l1"}
                         THEN [s1 EXCEPT !.c = pc_.val] ELSE s1
               IN  IF ~pp.ok THEN Fail(s2, ConfigurationError)
                   ELSE [s2 EXCEPT !.positive = pp.val]

\* dynamic dispatch of self._check_params()
_check_params(self) ==
    CASE self.cls = "ElasticCCA" -> ElasticCCA_check_params(self)
      [] self.cls = "SCCA_IPLS" -> SCCA_IPLS_check_params(self)
      [] OTHER -> SCCA_Span_check_params(self)

(* --------------------------- regressors --------------------------------- *)
\* tol hyperparameter (any float > 0)
Tol == <<1, 8>>

SGDRegressor(alpha, l1_ratio, tol) ==
    [kind |-> "SGDRegressor", alpha |-> alpha, l1_ratio |-> l1_ratio,
     positive |-> FALSE, tol |-> tol]

Ridge(alpha, positive) ==
    [kind |-> "Ridge", alpha |-> alpha, l1_ratio |-> R(0),
     positive |-> positive, tol |-> R(0)]

ElasticNet(alpha, l1_ratio, positive) ==
    [kind |-> "ElasticNet", alpha |-> alpha, l1_ratio |-> l1_ratio,
     positive |-> positive, tol |-> R(0)]

\* the choice of regressor made on l2 = alpha * (1 - l1_ratio) instead
RegressorFor_l2_test(alpha, l1_ratio, positive, stochastic, tol) ==
    IF IsZero(Mul(alpha, Sub(R(1), l1_ratio))) THEN Ridge(tol, positive)
    ELSE ElasticNet(alpha, l1_ratio, positive)

\* initialize_regressors: one regressor per zipped (alpha, l1_ratio, positive)
RegressorFor(alpha, l1_ratio, positive, stochastic, tol) ==
    IF stochastic THEN SGDRegressor(alpha, l1_ratio, tol)
    ELSE IF IsZero(alpha) THEN Ridge(tol, positive)
    ELSE ElasticNet(alpha, l1_ratio, positive)

Min(a, b) == IF a < b THEN a ELSE b

initialize_regressors(c, l1_ratio, positive, stochastic, tol) ==
    AsSeq([i \in 1..Min(Len(c.val), Min(Len(l1_ratio.val), Len(positive.val))) |->
             RegressorFor(c.val[i], l1_ratio.val[i], positive.val[i], stochastic, tol)])

\* ElasticCCA._initialize
ElasticCCA_initialize(self) ==
    [self EXCEPT !.regressors =
        initialize_regressors(self.c, self.l1_ratio, self.positive,
                              self.stochastic, Tol)]

\* SCCA_IPLS._initialize: regressors from tau, then c = tau
SCCA_IPLS_initialize(self) ==
    [self EXCEPT !.regressors =
        initialize_regressors(self.tau, self.l1_ratio, self.positive,
                              self.stochastic, Tol),
                 !.c = self.tau]

(* ------------------- the sklearn estimators' fit ------------------------ *)
\* soft threshold S(z, g) = sign(z) * max(|z| - g, 0)
SoftThreshold(z, g) ==
    IF Gt(z, g) THEN Sub(z, g)
    ELSE IF Lt(z, Neg(g)) THEN Add(z, g)
    ELSE R(0)

ClipPositive(w, positive) == IF positive /\ Lt(w, R(0)) THEN R(0) ELSE w

\* Minimiser of the estimator's objective for a design with orthogonal
\* columns x_j * E_j and target sum_j y_j * E_j (coordinates decouple):
\*   ElasticNet / SGDRegressor(penalty="elasticnet"):
\*       1/(2n) |y - Xw|^2 + alpha*l1_ratio*|w|_1 + alpha*(1-l1_ratio)/2*|w|^2
\*   Ridge:  |y - Xw|^2 + alpha*|w|^2
\* noise scales the SGD iterate, which only approximates the minimiser.
CoefOf(reg, x, y, noise) ==
    CASE reg.kind = "Ridge" ->
           ClipPositive(Div(Mul(R(NSamples), Mul(x, y)),
                            Add(Mul(R(NSamples), Mul(x, x)), reg.alpha)),
                        reg.positive)
      [] reg.kind = "ElasticNet" ->
           ClipPositive(
             Div(SoftThreshold(Mul(x, y), Mul(reg.alpha, reg.l1_ratio)),
                 Add(Mul(x, x), Mul(reg.alpha, Sub(R(1), reg.l1_ratio)))),
             reg.positive)
      [] OTHER ->
           Mul(noise,
               Div(SoftThreshold(Mul(x, y), Mul(reg.alpha, reg.l1_ratio)),
                   Add(Mul(x, x), Mul(reg.alpha, Sub(R(1), reg.l1_ratio)))))

\* ElasticCCA._elastic_solver: regressors[view_index].fit(X, y).coef_
_elastic_solver(self, X, y, view_index, noise) ==
    AsSeq([j \in DOMAIN X |->
             CoefOf(self.regressors[view_index + 1], X[j], y[j], noise)])

(* ------------------------- ElasticCCA._update --------------------------- *)
\* np.linalg.norm(v) / np.sqrt(self.n): the basis patterns have squared
\* norm n, so this is the Euclidean norm of the coordinates
NormOverSqrtN(v) == VNorm(v)

\* cca_zoo.utils._check_converged_weights: all-zero weights are an error
_check_converged_weights(weights, view_index) == ~VIsZero(weights)

\* the target with index view_index - 1 taken without Python's wrap-around
UpdateTargetNoWrap(self, view_index) ==
    IF self.maxvar
    THEN LET t == MeanRows(self.scores) IN VDivide(t, NormOverSqrtN(t))
    ELSE self.scores[IF view_index = 0 THEN 1 ELSE view_index]

\* the target of view view_index (0-based), from the scores as they stand
UpdateTarget(self, view_index) ==
    IF self.maxvar
    THEN LET t == MeanRows(self.scores) IN VDivide(t, NormOverSqrtN(t))
    ELSE PyIndex(self.scores, view_index - 1)

\* the loop body without the SUMCOR rescaling of the weights
ElasticCCA_update_view_unscaled(self, views, view_index, noise) ==
    LET i == view_index + 1
        target == UpdateTarget(self, view_index)
        s0 == [self EXCEPT !.target = target]
    IN  IF VHasNaN(target) THEN Fail(s0, NaNInputError)
        ELSE
          LET w == _elastic_solver(s0, views[i], target, view_index, noise)
              s1 == [s0 EXCEPT !.weights[i] = w]
          IN  IF ~s1.maxvar /\ ~_check_converged_weights(w, view_index)
              THEN Fail(s1, DegenerateWeightsError(view_index))
              ELSE [s1 EXCEPT !.scores[i] = MatVec(views[i], w)]

\* the loop body without its last line, scores[view_index] = views @ weights
ElasticCCA_update_view_stale_scores(self, views, view_index, noise) ==
    LET i == view_index + 1
        target == UpdateTarget(self, view_index)
        s0 == [self EXCEPT !.target = target]
    IN  IF VHasNaN(target) THEN Fail(s0, NaNInputError)
        ELSE
          LET w == _elastic_solver(s0, views[i], target, view_index, noise)
              s1 == [s0 EXCEPT !.weights[i] = w]
          IN  IF s1.maxvar
              THEN s1
              ELSE IF ~_check_converged_weights(w, view_index)
                   THEN Fail(s1, DegenerateWeightsError(view_index))
                   ELSE LET w2 == VDivide(w, NormOverSqrtN(MatVec(views[i], w)))
                        IN  [s1 EXCEPT !.weights[i] = w2]

\* one pass of the loop body of ElasticCCA._update, for view view_index
ElasticCCA_update_view(self, views, view_index, noise) ==
    LET i == view_index + 1
        target == UpdateTarget(self, view_index)
        s0 == [self EXCEPT !.target = target]
    IN  IF VHasNaN(target) THEN Fail(s0, NaNInputError)
        ELSE
          LET w == _elastic_solver(s0, views[i], target, view_index, noise)
              s1 == [s0 EXCEPT !.weights[i] = w]
          IN  IF s1.maxvar
              THEN [s1 EXCEPT !.scores[i] = MatVec(views[i], w)]
              ELSE IF ~_check_converged_weights(w, view_index)
                   THEN Fail(s1, DegenerateWeightsError(view_index))
                   ELSE LET w2 == VDivide(w, NormOverSqrtN(MatVec(views[i], w)))
                        IN  [s1 EXCEPT !.weights[i] = w2,
                                       !.scores[i] = MatVec(views[i], w2)]

\* the loop body with the view deflated by its new score inside the loop
ElasticCCA_update_views_deflated(self, views, view_index) ==
    [views EXCEPT ![view_index + 1] =
        AsSeq([j \in DOMAIN views[view_index + 1] |-> R(0)])]

\* the views as one pass of the loop body leaves them: views[view_index] is
\* only read (operand of @, X of the regressor's fit, which copies it)
ElasticCCA_update_views(self, views, view_index) == views

(* ------------------------ ElasticCCA._objective ------------------------- *)
\* the target as the loop of _objective leaves it after i in-place rescalings
RECURSIVE ObjectiveTarget(_, _, _)
ObjectiveTarget(self, t, i) ==
    IF i = 0 \/ ~self.maxvar THEN t
    ELSE LET p == ObjectiveTarget(self, t, i - 1)
         IN  VDivide(p, NormOverSqrtN(p))

\* the target _objective uses for view i (1-based): scores.mean(axis=0),
\* rescaled in MAXVAR mode only
ObjectiveTargetAt(self, i) == ObjectiveTarget(self, MeanRows(self.scores), i)

ObjectiveTerm(self, views, i) ==
    LET l1 == Mul(self.c.val[i], self.l1_ratio.val[i])
        l2 == Mul(self.c.val[i], Sub(R(1), self.l1_ratio.val[i]))
        target == ObjectiveTargetAt(self, i)
        d == VSub(MatVec(views[i], self.weights[i]), target)
        objective == Div(Mul(R(NSamples), Dot(d, d)), R(2 * NSamples))
        l1_pen == Mul(l1, VNorm1(self.weights[i]))
        l2_pen == Mul(l2, VNorm(self.weights[i]))
    IN  Add(objective, Add(l1_pen, l2_pen))

\* the objective with its sign flipped
ElasticCCA_objective_negated(self, views) ==
    Neg(SumSeq(AsSeq([i \in 1..Len(views) |-> ObjectiveTerm(self, views, i)])))

ElasticCCA_objective(self, views) ==
    SumSeq(AsSeq([i \in 1..Len(views) |-> ObjectiveTerm(self, views, i)]))

(* ------------------------------ span search ----------------------------- *)
\* position (1 = largest) of entry j when ordering by decreasing magnitude
MagnitudeRank(a, j) ==
    1 + Cardinality({i \in DOMAIN a :
                        \/ Gt(RAbs(a[i]), RAbs(a[j]))
                        \/ (RAbs(a[i]) = RAbs(a[j]) /\ i < j)})

\* utils.support_threshold: keep the c entries of largest magnitude
support_threshold(data, c) ==
    AsSeq([j \in DOMAIN data |->
             IF IsNaN(data[j]) THEN NaN
             ELSE IF R(MagnitudeRank(data, j)) = c \/ Lt(R(MagnitudeRank(data, j)), c)
             THEN data[j] ELSE R(0)])

\* utils._delta_search: soft-threshold by the smallest delta for which the
\* result is zero or has |z|_1 <= c * |z|_2
SoftVec(w, delta) == AsSeq([j \in DOMAIN w |-> SoftThreshold(w[j], delta)])

DeltaFeasible(z, c) ==
    \/ VIsZero(z)
    \/ ~Gt(Mul(VNorm1(z), VNorm1(z)), Mul(Mul(c, c), Dot(z, z)))

MinRat(S) == CHOOSE d \in S : \A e \in S : ~Gt(d, e)

DeltaCandidates(w) == {R(0)} \cup {RAbs(w[j]) : j \in DOMAIN w}

_delta_search(w, c) ==
    IF VHasNaN(w) THEN w
    ELSE SoftVec(w, MinRat({d \in DeltaCandidates(w) :
                              DeltaFeasible(SoftVec(w, d), c)}))

ApplyUpdate(update, data, c) ==
    IF update = "support_threshold" THEN support_threshold(data, c)
    ELSE _delta_search(data, c)

UnitVec(j, n) == AsSeq([i \in 1..n |-> IF i = j THEN R(1) ELSE R(0)])

Sign(p) == IF Lt(p, R(0)) THEN R(-1) ELSE R(1)

\* SCCA_Span._set_loop_params
SCCA_Span_set_loop_params(self) ==
    [self EXCEPT !.loop = [set |-> TRUE, update |-> self.update, c |-> self.c,
                           rank |-> self.rank, positive |-> self.positive,
                           max_obj |-> <<>>, obj |-> <<>>,
                           P |-> <<>>, D |-> <<>>, Q |-> <<>>]]

\* _SpanCCAInnerLoop._initialize: cov = views[0].T @ views[1] / n is
\* diagonal for views with columns x_j * E_j; its SVD orders the entries by
\* decreasing magnitude and carries their signs in Q.
SpanLoop_initialize(self, views) ==
    LET cov == [j \in DOMAIN views[1] |-> Mul(views[1][j], views[2][j])]
        nf == Len(cov)
        at(k) == CHOOSE j \in 1..nf : MagnitudeRank(cov, j) = k
        r == Min(self.loop.rank, nf)
    IN  [self EXCEPT !.loop.max_obj = R(0),
                     !.loop.P = [k \in 1..r |-> UnitVec(at(k), nf)],
                     !.loop.D = [k \in 1..r |-> RAbs(cov[at(k)])],
                     !.loop.Q = [k \in 1..r |->
                                    VScale(UnitVec(at(k), nf), Sign(cov[at(k)]))]]

\* the vectors of one trial for the draw of random_state.randn(rank)
TrialVectors(self, draw) ==
    LET lp == self.loop
        c == VDivide(draw, VNorm(draw))
        nf == Len(lp.P[1])
        a == AsSeq([j \in 1..nf |->
                SumSeq(AsSeq([k \in DOMAIN lp.P |-> Mul(lp.P[k][j], Mul(lp.D[k], c[k]))]))])
        u0 == ApplyUpdate(lp.update, a, lp.c.val[1])
        u == VDivide(u0, VNorm(u0))
        b == AsSeq([j \in 1..nf |->
                SumSeq(AsSeq([k \in DOMAIN lp.Q |->
                          Mul(lp.Q[k][j], Mul(lp.D[k], Dot(lp.P[k], u)))]))])
        v0 == ApplyUpdate(lp.update, b, lp.c.val[2])
        v == VDivide(v0, VNorm(v0))
    IN  [a |-> a, u |-> u, b |-> b, v |-> v, obj |-> Dot(b, v)]

\* every norm taken in the trial is an exact rational
TrialRepresentable(self, draw) ==
    LET lp == self.loop
        c == VDivide(draw, VNorm(draw))
        nf == Len(lp.P[1])
        a == AsSeq([j \in 1..nf |->
                SumSeq(AsSeq([k \in DOMAIN lp.P |-> Mul(lp.P[k][j], Mul(lp.D[k], c[k]))]))])
        u0 == ApplyUpdate(lp.update, a, lp.c.val[1])
    IN  /\ IsSquareRat(Dot(u0, u0))
        /\ LET u == VDivide(u0, VNorm(u0))
               b == AsSeq([j \in 1..nf |->
                       SumSeq(AsSeq([k \in DOMAIN lp.Q |->
                                 Mul(lp.Q[k][j], Mul(lp.D[k], Dot(lp.P[k], u)))]))])
               v0 == ApplyUpdate(lp.update, b, lp.c.val[2])
           IN  VHasNaN(v0) \/ IsSquareRat(Dot(v0, v0))

\* the trial storing its weights and scores whether accepted or not
SpanLoop_inner_iteration_always_store(self, views, draw) ==
    LET t == TrialVectors(self, draw)
        s0 == [self EXCEPT !.loop.obj = t.obj,
                           !.scores = <<MatVec(views[1], t.u), MatVec(views[2], t.v)>>,
                           !.weights = <<t.u, t.v>>]
    IN  IF Gt(t.obj, self.loop.max_obj)
        THEN [s0 EXCEPT !.loop.max_obj = t.obj]
        ELSE s0

\* the trial with its comparison reversed
SpanLoop_inner_iteration_reversed(self, views, draw) ==
    LET t == TrialVectors(self, draw)
        s0 == [self EXCEPT !.loop.obj = t.obj]
    IN  IF Lt(t.obj, self.loop.max_obj)
        THEN [s0 EXCEPT !.loop.max_obj = t.obj,
                        !.scores = <<MatVec(views[1], t.u), MatVec(views[2], t.v)>>,
                        !.weights = <<t.u, t.v>>]
        ELSE s0

\* _SpanCCAInnerLoop._inner_iteration; loop.obj records the trial's
\* objective b.T @ v
SpanLoop_inner_iteration(self, views, draw) ==
    LET t == TrialVectors(self, draw)
        s0 == [self EXCEPT !.loop.obj = t.obj]
    IN  IF Gt(t.obj, self.loop.max_obj)
        THEN [s0 EXCEPT !.loop.max_obj = t.obj,
                        !.scores = <<MatVec(views[1], t.u), MatVec(views[2], t.v)>>,
                        !.weights = <<t.u, t.v>>]
        ELSE s0

\* the views as one trial leaves them: they are read only when an accepted
\* trial recomputes the scores
SpanLoop_inner_iteration_views(self, views) == views

(* ============================= DeepWrapper ============================== *)
\* bounds of the deep-wrapper model
MaxEpochs == 4

MaxCalls == 2

MaxClosure == 2

MaxTransforms == 2

\* validation losses an epoch may produce, and torch.tensor(np.inf)
ValLosses == {1, 2, 3}

Infinity == 9

\* the dropout masks a forward pass in training mode may draw
Masks == {0, 1}

\* what dw is while no DeepWrapper exists
NoWrapper == [cls |-> "none"]

\* DeepWrapper.__init__: self.optimizer is assigned only when the optimizer
\* argument is None.  encoder is the kind of layers of the wrapped model,
\* model_scheduler whether model.scheduler is set; a torch module starts in
\* training mode.
DeepWrapper_init(encoder, optimizer, model_scheduler) ==
    [cls |-> "DeepWrapper",
     given_optimizer |-> optimizer,
     optimizer |-> IF optimizer = "None" THEN "LBFGS" ELSE "unset",
     model_scheduler |-> model_scheduler,
     encoder |-> encoder,
     training |-> TRUE,      \* model.training
     params |-> 0,           \* version of model.state_dict()
     rng |-> 0,              \* draws taken from the random generator
     bn |-> 0,               \* updates of the batch-norm running statistics
     n_views_ |-> FALSE,     \* DCCA.forward sets n_views_ on its first call
     grads |-> "None",       \* what the parameters' .grad hold
     ops |-> <<>>,           \* operations of the last update_weights call
     used |-> <<>>,          \* the gradients each parameter update consumed
     calls |-> 0,
     err |-> "none",
     pc |-> "constructed",
     epochs |-> 0, patience |-> 0, has_val |-> FALSE, train_correlations |-> FALSE,
     epoch |-> 0, early_stop |-> FALSE, epochs_no_improve |-> 0,
     min_val_loss |-> Infinity, best_model |-> 0,
     n_train |-> 0, n_val |-> 0, n_sched |-> 0,
     val_hist |-> <<>>,      \* the validation loss of every validation epoch
     outs |-> <<>>]          \* what each transform call returned

\* the state effects of one forward pass self.model(*data): dropout draws
\* a mask and batch norm updates its running statistics in training mode
Forward(self) ==
    [self EXCEPT !.n_views_ = TRUE,
                 !.rng = IF self.training /\ self.encoder = "dropout"
                         THEN @ + 1 ELSE @,
                 !.bn = IF self.training /\ self.encoder = "batchnorm"
                        THEN @ + 1 ELSE @]

\* what the forward pass returns for the fixed test data: it depends on the
\* parameters, in training mode on the dropout mask drawn, and in
\* evaluation mode on the batch-norm running statistics
ForwardOutput(self, mask) ==
    [params |-> self.params,
     mask |-> IF self.training /\ self.encoder = "dropout" THEN mask ELSE -1,
     stats |-> IF ~self.training /\ self.encoder = "batchnorm" THEN self.bn ELSE -1]

\* DeepWrapper.transform(test_dataset) with one batch and train=False:
\* the forward pass under torch.no_grad(), then model.post_transform
DeepWrapper_transform(self, mask) ==
    [Forward(self) EXCEPT
        !.outs = Append(self.outs, [via |-> "DeepWrapper.transform",
                                    z |-> ForwardOutput(self, mask)])]

\* BaseDeep.transform(loader) with one batch: get_representations calls
\* self(...) under torch.no_grad(); its self.eval() is commented out
BaseDeep_transform(self, mask) ==
    [Forward(self) EXCEPT
        !.outs = Append(self.outs, [via |-> "BaseDeep.transform",
                                    z |-> ForwardOutput(self, mask)])]

\* the body of the closure update_weights defines for LBFGS
Closure == <<"zero_grad", "loss", "backward">>

\* torch.optim.LBFGS.step(closure) making k parameter updates: the closure
\* is evaluated first and again after every update
RECURSIVE LBFGS_step(_)
LBFGS_step(k) ==
    IF k = 0 THEN Closure ELSE LBFGS_step(k - 1) \o <<"update">> \o Closure

\* the operations DeepWrapper.update_weights performs, in order, when
\* self.optimizer exists; k is the number of updates LBFGS makes in its step
update_weights_ops(optimizer, k) ==
    IF optimizer = "LBFGS"
    THEN <<"clip">> \o LBFGS_step(k) \o Closure
    ELSE <<"zero_grad", "loss", "backward", "clip", "update">>

\* the effect of one operation on the model: zero_grad clears the
\* gradients, loss runs a forward pass, backward leaves the gradients of
\* that loss, clip_grad_value_ clamps the gradients that exist, and an
\* update changes the parameters by the gradients as they stand
ApplyOp(self, op) ==
    CASE op = "zero_grad" -> [self EXCEPT !.grads = "zero"]
      [] op = "loss" -> Forward(self)
      [] op = "backward" -> [self EXCEPT !.grads = "raw"]
      [] op = "clip" -> [self EXCEPT !.grads = IF @ = "raw" THEN "clipped" ELSE @]
      [] op = "update" -> [self EXCEPT !.used = Append(@, self.grads),
                                       !.params = @ + 1]

RECURSIVE ApplyOps(_, _)
ApplyOps(self, ops) ==
    IF ops = <<>> THEN self
    ELSE ApplyOps(ApplyOp(self, Head(ops)), Tail(ops))

\* DeepWrapper.update_weights(*args): reading self.optimizer raises
\* AttributeError when __init__ did not assign it
DeepWrapper_update_weights(self, k) ==
    LET called == [self EXCEPT !.calls = @ + 1, !.ops = <<>>, !.used = <<>>]
    IN  IF self.optimizer = "unset"
        THEN [called EXCEPT !.err = "AttributeError"]
        ELSE LET ops == update_weights_ops(self.optimizer, k)
             IN  [ApplyOps(called, ops) EXCEPT !.ops = ops, !.err = "none"]

\* DeepWrapper.train_epoch with one batch: model.train(), then
\* model.update_weights on the batch
train_epoch(self) ==
    LET t == Forward([self EXCEPT !.training = TRUE])
    IN  [t EXCEPT !.params = @ + 1, !.grads = "raw", !.n_train = @ + 1]

\* DeepWrapper.val_epoch with one batch: model.eval(), the gradients are
\* dropped, the loss of the batch is val_loss
val_epoch(self, val_loss) ==
    LET v == Forward([self EXCEPT !.training = FALSE])
    IN  [v EXCEPT !.grads = "None", !.n_val = @ + 1,
                  !.val_hist = Append(@, val_loss)]

\* DeepWrapper.fit up to its loop: best_model, min_val_loss,
\* epochs_no_improve and early_stop are set
DeepWrapper_fit_start(self, epochs, patience, has_val, train_correlations) ==
    [self EXCEPT !.pc = "fitting",
                 !.epochs = epochs, !.patience = patience,
                 !.has_val = has_val,
                 !.train_correlations = train_correlations,
                 !.epoch = 0, !.early_stop = FALSE,
                 !.epochs_no_improve = 0, !.min_val_loss = Infinity,
                 !.best_model = self.params,
                 !.n_train = 0, !.n_val = 0, !.n_sched = 0,
                 !.val_hist = <<>>]

\* the bookkeeping with a count of failed epochs that is never reset
fit_early_stopping_no_reset(self, epoch, val_loss) ==
    IF val_loss < self.min_val_loss \/ epoch = 1
    THEN [self EXCEPT !.min_val_loss = val_loss,
                      !.best_model = self.params]
    ELSE LET n == self.epochs_no_improve + 1
         IN  IF n = self.patience /\ self.patience > 0
             THEN [self EXCEPT !.epochs_no_improve = n,
                               !.early_stop = TRUE,
                               !.params = self.best_model]
             ELSE [self EXCEPT !.epochs_no_improve = n]

\* the early-stopping bookkeeping of one epoch of fit, after val_epoch
fit_early_stopping(self, epoch, val_loss) ==
    IF val_loss < self.min_val_loss \/ epoch = 1
    THEN [self EXCEPT !.min_val_loss = val_loss,
                      !.best_model = self.params,
                      !.epochs_no_improve = 0]
    ELSE LET n == self.epochs_no_improve + 1
         IN  IF n = self.patience /\ self.patience > 0
             THEN [self EXCEPT !.epochs_no_improve = n,
                               !.early_stop = TRUE,
                               !.params = self.best_model]
             ELSE [self EXCEPT !.epochs_no_improve = n]

\* one iteration of the loop of DeepWrapper.fit
DeepWrapper_fit_epoch(self, val_loss) ==
    LET epoch == self.epoch + 1
    IN  IF self.early_stop
        THEN [self EXCEPT !.epoch = epoch]
        ELSE LET a == train_epoch(self)
                 b == IF self.has_val
                      THEN fit_early_stopping(val_epoch(a, val_loss), epoch, val_loss)
                      ELSE a
                 c == IF self.model_scheduler
                      THEN [b EXCEPT !.n_sched = @ + 1]
                      ELSE b
             IN  [c EXCEPT !.epoch = epoch]

\* DeepWrapper.fit after its loop: predict_corr transforms the training
\* data when train_correlations is set
DeepWrapper_fit_finish(self) ==
    [(IF self.train_correlations THEN Forward(self) ELSE self)
        EXCEPT !.pc = "fitted"]

(* ------------------------------- state ---------------------------------- *)
VARIABLES
    m,           \* the estimator object being fitted (its attributes)
    ref,         \* ElasticCCA(c=tau, l1_ratio=1) built from the same arguments
                 \* when m is an SCCA_IPLS; m itself otherwise
    views,       \* the preprocessed views
    pc,          \* position of fit
    view_index,  \* loop variable of ElasticCCA._update
    sweep,       \* number of completed inner iterations
    sweep_start, \* the scores as they stood when the current sweep began
    dw           \* the DeepWrapper object and the torch model it wraps

vars == <<m, ref, views, pc, view_index, sweep, sweep_start, dw>>

ElasticFamily == {"ElasticCCA", "SCCA_IPLS"}

Terminal == {"converged", "max_iter", "diverged", "failed"}

(* ------------------------------- inputs --------------------------------- *)
HeadRest(vals, n) == {[i \in 1..n |-> IF i = 1 THEN a ELSE b] : a \in vals, b \in vals}

\* None, a scalar, a sequence of length n_views, or one of another length
ParamChoices(vals, n) ==
    {None} \cup {Scalar(v) : v \in vals}
           \cup {List(s) : s \in HeadRest(vals, n)}
           \cup {List(Repeat(CHOOSE v \in vals : TRUE, n - 1))}

CVals == {R(0), R(1)}

RatioVals == {R(0), R(1)}

SpanCVals == {R(0), R(1), R(2)}

ViewScales == {R(1), R(2)}

ElasticViews(n) == {[i \in 1..n |-> <<IF i = 1 THEN a ELSE R(1)>>] : a \in ViewScales}

\* two-feature views with columns E_1, E_2, and regularisation strengths
\* for which every norm taken in SUMCOR mode is an exact rational
PlaneViews(n) == [i \in 1..n |-> <<R(1), R(1)>>]

PlaneCVals == {R(0), <<3, 5>>}

PlaneInitialScore == << <<3, 5>>, <<4, 5>> >>

SpanViewPairs ==
    {<< <<R(3), R(1)>>, <<R(1), <<5, 3>>>> >>,
     << <<R(1), R(2)>>, <<R(-1), R(1)>> >>}

SpanViews(n) == {[i \in 1..n |-> IF i = 1 THEN p[1] ELSE p[2]] : p \in SpanViewPairs}

\* initial scores of the first view, the others start at 1
InitFirstScores == {R(1), <<-1, 2>>}

SgdNoise == {R(1), Half}

RandnDraws(rank) ==
    IF rank = 1 THEN {<<R(2)>>, <<R(-1)>>}
    ELSE {<<R(2), R(0)>>, <<R(0), R(-1)>>, <<R(4), R(3)>>}

PlaneC(n) == {List(s) : s \in HeadRest(PlaneCVals, n)}

PlaneRatio == {Scalar(R(0)), Scalar(R(1))}

PlanePositive == {None, Scalar(TRUE)}

Init ==
    /\ \E n \in 2..MaxViews :
          \/ \E c \in PlaneC(n), l1 \in PlaneRatio, pos \in PlanePositive :
                /\ m = ElasticCCA_init(BaseObject("ElasticCCA", n), c, l1,
                                       FALSE, FALSE, pos)
                /\ ref = m
                /\ views = PlaneViews(n)
          \/ \E tau \in PlaneC(n), pos \in PlanePositive :
                /\ m = SCCA_IPLS_init(BaseObject("SCCA_IPLS", n), tau,
                                      FALSE, FALSE, pos)
                /\ ref = ElasticCCA_init(BaseObject("ElasticCCA", n), tau,
                                         Scalar(R(1)), FALSE, FALSE, pos)
                /\ views = PlaneViews(n)
          \/ \E c \in ParamChoices(CVals, n), l1 \in ParamChoices(RatioVals, n),
                mv \in BOOLEAN, st \in BOOLEAN, pos \in ParamChoices(BOOLEAN, n) :
                /\ m = ElasticCCA_init(BaseObject("ElasticCCA", n), c, l1, mv, st, pos)
                /\ ref = m
                /\ views \in ElasticViews(n)
          \/ \E tau \in ParamChoices(CVals, n),
                mv \in BOOLEAN, st \in BOOLEAN, pos \in ParamChoices(BOOLEAN, n) :
                /\ m = SCCA_IPLS_init(BaseObject("SCCA_IPLS", n), tau, mv, st, pos)
                \* the ElasticCCA that SCCA_IPLS is said to specialise
                /\ ref = ElasticCCA_init(BaseObject("ElasticCCA", n), tau,
                                         Scalar(R(1)), mv, st, pos)
                /\ views \in ElasticViews(n)
          \/ \E reg \in {"l0", "l1"}, c \in ParamChoices(SpanCVals, n),
                rank \in {1, 2}, pos \in ParamChoices(BOOLEAN, n) :
                /\ m = SCCA_Span_init(BaseObject("SCCA_Span", n), reg, c, rank, pos)
                /\ ref = m
                /\ views \in SpanViews(n)
    /\ pc = "start"
    /\ view_index = 0
    /\ sweep = 0
    /\ sweep_start = <<>>
    /\ dw = NoWrapper

(* ------------------------------- actions -------------------------------- *)
\* what the reference object does when m takes a step: the same method of
\* ElasticCCA, unless it has already raised
RefStep(new_m, stepped) ==
    IF m.cls # "SCCA_IPLS" THEN new_m
    ELSE IF ref.err # NoError THEN ref
    ELSE stepped

\* fit: self._check_params()
CheckParams ==
    /\ pc = "start"
    /\ m' = _check_params(m)
    /\ ref' = RefStep(m', ElasticCCA_check_params(ref))
    /\ pc' = IF m'.err # NoError THEN "failed" ELSE "checked"
    /\ UNCHANGED <<views, view_index, sweep, sweep_start, dw>>

\* initial weights of a latent dimension, such that the initial scores
\* views @ weights are the chosen ones
InitialWeightChoices ==
    IF Len(views[1]) = 1
    THEN {[i \in 1..Len(views) |->
             <<Div(IF i = 1 THEN first ELSE R(1), views[i][1])>>] :
          first \in InitFirstScores}
    ELSE {[i \in 1..Len(views) |->
             AsSeq([j \in DOMAIN views[i] |->
                      Div(PlaneInitialScore[j], views[i][j])])]}

WithInitialWeights(self, w) ==
    [self EXCEPT !.weights = w,
                 !.scores = AsSeq([i \in 1..Len(views) |-> MatVec(views[i], w[i])])]

\* fit: self._initialize(views) and the initialisation of weights and scores
ElasticInitialize ==
    /\ pc = "checked"
    /\ m.cls \in ElasticFamily
    /\ \E w \in InitialWeightChoices :
          LET init(self) == IF self.cls = "SCCA_IPLS"
                            THEN SCCA_IPLS_initialize(self)
                            ELSE ElasticCCA_initialize(self)
          IN  /\ m' = WithInitialWeights(init(m), w)
              /\ ref' = RefStep(m', WithInitialWeights(ElasticCCA_initialize(ref), w))
    /\ pc' = "loop"
    /\ view_index' = 0
    /\ sweep_start' = m'.scores
    /\ UNCHANGED <<views, sweep, dw>>

\* ElasticCCA._update: the loop body for view view_index
UpdateStep ==
    /\ pc = "loop"
    /\ m.cls \in ElasticFamily
    /\ view_index < m.n_views
    /\ \E noise \in (IF m.stochastic THEN SgdNoise ELSE {R(1)}) :
          /\ m' = ElasticCCA_update_view(m, views, view_index, noise)
          /\ ref' = RefStep(m', ElasticCCA_update_view(ref, views, view_index, noise))
    /\ views' = ElasticCCA_update_views(m, views, view_index)
    /\ view_index' = view_index + 1
    /\ pc' = IF m'.err # NoError THEN "failed"
             ELSE IF view_index' = m.n_views THEN "objective"
             ELSE "loop"
    /\ UNCHANGED <<sweep, sweep_start, dw>>

WithObjective(self) ==
    [self EXCEPT !.track = Append(self.track, ElasticCCA_objective(self, views))]

Converged(track) ==
    /\ Len(track) >= 2
    /\ Lt(RAbs(Sub(track[Len(track)], track[Len(track) - 1])), Tol)

\* after a full sweep: evaluate the objective and test convergence
EvalObjective ==
    /\ pc = "objective"
    /\ m' = WithObjective(m)
    /\ ref' = RefStep(m', WithObjective(ref))
    /\ sweep' = sweep + 1
    /\ view_index' = 0
    /\ pc' = IF IsNaN(m'.track[Len(m'.track)]) THEN "diverged"
             ELSE IF Converged(m'.track) THEN "converged"
             ELSE IF sweep' >= MaxIter THEN "max_iter"
             ELSE "loop"
    /\ sweep_start' = m.scores
    /\ UNCHANGED <<views, dw>>

\* fit: self._set_loop_params(), loop._initialize(views)
SpanInitialize ==
    /\ pc = "checked"
    /\ m.cls = "SCCA_Span"
    /\ \E j \in 1..Len(views[1]) :
          LET w == [i \in 1..Len(views) |-> UnitVec(j, Len(views[i]))]
          IN  m' = WithInitialWeights(
                     SpanLoop_initialize(SCCA_Span_set_loop_params(m), views), w)
    /\ ref' = m'
    /\ pc' = "loop"
    /\ UNCHANGED <<views, view_index, sweep, sweep_start, dw>>

\* one randomized trial of the span search
SpanTrial ==
    /\ pc = "loop"
    /\ m.cls = "SCCA_Span"
    /\ \E draw \in {d \in RandnDraws(m.loop.rank) : TrialRepresentable(m, d)} :
          m' = SpanLoop_inner_iteration(m, views, draw)
    /\ ref' = m'
    /\ views' = SpanLoop_inner_iteration_views(m, views)
    /\ sweep' = sweep + 1
    /\ pc' = IF sweep' >= MaxIter THEN "max_iter" ELSE "loop"
    /\ UNCHANGED <<view_index, sweep_start, dw>>

Next ==
    \/ CheckParams
    \/ ElasticInitialize
    \/ UpdateStep
    \/ EvalObjective
    \/ SpanInitialize
    \/ SpanTrial

Spec == Init /\ [][Next]_vars

(* ------------------------- DeepWrapper actions -------------------------- *)
Encoders == {"linear", "dropout", "batchnorm"}

Optimizers == {"None", "LBFGS", "Adam"}

IterativeIdle == <<m, ref, views, pc, view_index, sweep, sweep_start>>

\* a DeepWrapper has been constructed around a model; no estimator of the
\* iterative family is being fitted
DeepInit ==
    /\ \E encoder \in Encoders, optimizer \in Optimizers,
          model_scheduler \in BOOLEAN :
          dw = DeepWrapper_init(encoder, optimizer, model_scheduler)
    /\ m = NoWrapper
    /\ ref = NoWrapper
    /\ views = <<>>
    /\ pc = "idle"
    /\ view_index = 0
    /\ sweep = 0
    /\ sweep_start = <<>>

\* one call of DeepWrapper.update_weights on a batch
UpdateWeights ==
    /\ dw.pc = "constructed"
    /\ dw.calls < MaxCalls
    /\ \E k \in 0..MaxClosure : dw' = DeepWrapper_update_weights(dw, k)
    /\ UNCHANGED IterativeIdle

\* DeepWrapper.fit is called
FitStart ==
    /\ dw.pc = "constructed"
    /\ \E epochs \in 1..MaxEpochs, patience \in 0..2,
          has_val \in BOOLEAN, train_correlations \in BOOLEAN :
          dw' = DeepWrapper_fit_start(dw, epochs, patience, has_val,
                                      train_correlations)
    /\ UNCHANGED IterativeIdle

\* one iteration of the epoch loop of fit
FitEpoch ==
    /\ dw.pc = "fitting"
    /\ dw.epoch < dw.epochs
    /\ \E val_loss \in ValLosses :
          dw' = DeepWrapper_fit_epoch(dw, val_loss)
    /\ UNCHANGED IterativeIdle

\* the loop of fit is over
FitFinish ==
    /\ dw.pc = "fitting"
    /\ dw.epoch = dw.epochs
    /\ dw' = DeepWrapper_fit_finish(dw)
    /\ UNCHANGED IterativeIdle

\* DeepWrapper.transform on the test data
Transform ==
    /\ dw.pc = "fitted"
    /\ Len(dw.outs) < MaxTransforms
    /\ \E mask \in Masks : dw' = DeepWrapper_transform(dw, mask)
    /\ UNCHANGED IterativeIdle

\* BaseDeep.transform on the test data
TransformModel ==
    /\ dw.pc = "fitted"
    /\ Len(dw.outs) < MaxTransforms
    /\ \E mask \in Masks : dw' = BaseDeep_transform(dw, mask)
    /\ UNCHANGED IterativeIdle

DeepNext ==
    \/ UpdateWeights
    \/ FitStart
    \/ FitEpoch
    \/ FitFinish
    \/ Transform
    \/ TransformModel

DeepSpec == DeepInit /\ [][DeepNext]_vars

TypeOK == pc \in {"start", "checked", "loop", "objective"} \cup Terminal

(* ======================= parameter normalisation ======================== *)
\* the per-view hyperparameters of each estimator
PerViewNames(self) ==
    CASE self.cls = "ElasticCCA" -> {"c", "l1_ratio", "positive"}
      [] self.cls = "SCCA_IPLS" -> {"tau", "l1_ratio", "positive"}
      [] OTHER -> {"c", "positive"}

DefaultOf(name) == IF name = "positive" THEN FALSE ELSE R(0)

IsViewArray(p, n) == p.kind = "list" /\ Len(p.val) = n

SameParam(p, q) == p.kind = q.kind /\ (p.kind # "None" => p.val = q.val)

ParamsChecked == pc \notin {"start", "failed"}

HasBadLength(self) ==
    \E name \in PerViewNames(self) :
       self[name].kind = "list" /\ Len(self[name].val) # self.n_views

NothingComputed(self) ==
    /\ self.regressors = <<>>
    /\ self.loop = NoLoop
    /\ self.weights = <<>>
    /\ self.scores = <<>>
    /\ self.track = <<>>

\* C2: a per-view hyperparameter given as a sequence whose length differs
\* from n_views makes parameter checking fail with a ConfigurationError,
\* and no regressor is built and no numerical update is run, then or later.
C2_BadLengthFailsFast ==
    /\ [][(pc = "start" /\ HasBadLength(m)) =>
            (pc' = "failed" /\ m'.err.kind = "ConfigurationError")]_vars
    /\ [](m.err.kind = "ConfigurationError" =>
            (pc = "failed" /\ NothingComputed(m) /\ sweep = 0))

\* C2 witness: an ElasticCCA that failed its check on l1_ratio after c had
\* been normalised
C2_Witness ==
    /\ pc = "failed"
    /\ m.cls = "ElasticCCA"
    /\ m.err = ConfigurationError
    /\ m.c.kind = "list" /\ Len(m.c.val) = m.n_views
    /\ m.l1_ratio.kind = "list" /\ Len(m.l1_ratio.val) # m.n_views
    /\ m.regressors = <<>>

(* ========================= elastic-net inner loop ======================= *)
\* C3: in MAXVAR as well as SUMCOR mode, all-zero weights returned by the
\* sub-solver for a view make the update fail with a DegenerateWeightsError
\* naming that view, and no NaN target or score is ever produced.
C3_ZeroWeightsDetected ==
    m.cls \in ElasticFamily =>
       /\ \A i \in DOMAIN m.weights :
             VIsZero(m.weights[i]) => m.err = DegenerateWeightsError(i - 1)
       /\ ~VHasNaN(m.target)
       /\ \A i \in DOMAIN m.scores : ~VHasNaN(m.scores[i])

\* C3 witness: a MAXVAR sweep went on past all-zero weights of every view
\* without raising, and the objective of that sweep is NaN
C3_Witness ==
    /\ m.cls = "ElasticCCA"
    /\ m.maxvar
    /\ m.weights # <<>>
    /\ \A i \in DOMAIN m.weights : VIsZero(m.weights[i])
    /\ m.err = NoError
    /\ pc = "diverged"
    /\ IsNaN(m.track[Len(m.track)])

\* an update of one view is about to run
UpdatingView == pc = "loop" /\ m.cls \in ElasticFamily

\* this sweep's scores of the views already updated, the previous sweep's
\* scores of the others
GaussSeidelScores ==
    AsSeq([k \in 1..m.n_views |->
             IF k <= view_index THEN m.scores[k] ELSE sweep_start[k]])

\* C4: within a sweep the views are updated strictly in index order
\* 0..n_views-1, each update rewrites only its own view's weights and score,
\* and the target of view i is computed from the scores as they stand: this
\* sweep's new scores of views 0..i-1, the previous sweep's scores of views
\* i..n_views-1.
C4_GaussSeidelOrder ==
    /\ [][UpdatingView =>
            /\ view_index < m.n_views
            /\ view_index' = view_index + 1
            /\ m'.target = UpdateTarget([m EXCEPT !.scores = GaussSeidelScores],
                                        view_index)
            /\ \A k \in 1..m.n_views :
                  k # view_index + 1 =>
                     m'.scores[k] = m.scores[k] /\ m'.weights[k] = m.weights[k]
            /\ m'.err = NoError =>
                  m'.scores[view_index + 1] =
                     MatVec(views[view_index + 1], m'.weights[view_index + 1])]_vars
    /\ []((m.cls \in ElasticFamily /\ pc \in {"loop", "objective"}) =>
            /\ view_index \in 0..m.n_views
            /\ (pc = "objective") = (view_index = m.n_views)
            /\ \A k \in 1..m.n_views :
                  k > view_index => m.scores[k] = sweep_start[k])

\* C4 witness: in a three-view SUMCOR sweep the last view is next, view 0's
\* score has changed in this sweep, and the target just used for view 1 was
\* that new score, not the one the sweep began with
C4_Witness ==
    /\ UpdatingView
    /\ ~m.maxvar
    /\ m.n_views = 3
    /\ view_index = 2
    /\ m.scores[1] # sweep_start[1]
    /\ m.target = m.scores[1]
    /\ m.scores[3] = sweep_start[3]

C6_ObjectiveUsesUpdateTarget ==
    (pc = "objective" /\ m.cls \in ElasticFamily) =>
       \A i \in 1..m.n_views : ObjectiveTargetAt(m, i) = UpdateTarget(m, i - 1)

\* C6 witness: a SUMCOR sweep has ended with scores that differ between the
\* views, and the objective about to be evaluated measures view 0 against
\* the plain mean of the scores, not against the last view's score
C6_Witness ==
    /\ pc = "objective"
    /\ m.cls = "ElasticCCA"
    /\ ~m.maxvar
    /\ m.n_views = 2
    /\ m.scores[1] # m.scores[2]
    /\ ObjectiveTargetAt(m, 1) = MeanRows(m.scores)
    /\ ObjectiveTargetAt(m, 1) # m.scores[2]

(* ============================= frame effects ============================ *)
\* the attributes an update of one view may write; target is the local
\* variable of the loop body and err the exception it may raise
UpdateWrites == {"weights", "scores", "target", "err"}

\* the attributes of the inner loop a trial may write; obj is the trial's
\* objective b.T @ v
TrialWrites == {"max_obj", "obj"}

\* C11: inside the inner loop of a latent dimension no view is modified: an
\* update of a view in ElasticCCA._update writes only weights and scores,
\* a span-search trial only weights, scores and max_obj, and the views
\* stay the ones the dimension started with.
C11_ViewsUntouched ==
    /\ [][UpdatingView =>
            /\ views' = views
            /\ \A f \in (DOMAIN m) \ UpdateWrites : m'[f] = m[f]]_vars
    /\ [][(pc = "loop" /\ m.cls = "SCCA_Span") =>
            /\ views' = views
            /\ \A f \in (DOMAIN m) \ {"weights", "scores", "loop"} : m'[f] = m[f]
            /\ \A f \in (DOMAIN m.loop) \ TrialWrites : m'.loop[f] = m.loop[f]]_vars
    /\ [][(pc \in {"loop", "objective"}) => (views' = views)]_vars

\* C11 witness: the second sweep of a three-view fit is under way, view 0
\* has new weights and a new score, and the views are the ones passed in
C11_Witness ==
    /\ UpdatingView
    /\ m.n_views = 3
    /\ sweep = 1
    /\ view_index = 1
    /\ m.scores[1] = MatVec(views[1], m.weights[1])
    /\ m.err = NoError
    /\ views \in ElasticViews(3)
    /\ views[1] = <<R(2)>>

(* ========================== SUMCOR normalisation ======================== *)
\* weight.T @ view.T @ view @ weight for a view with columns x_j * E_j,
\* E_j.T @ E_j = n_samples
QuadForm(view, w) ==
    Mul(R(NSamples), Dot(MatVec(view, w), MatVec(view, w)))

\* view i (1-based) of object self is consistent and, in SUMCOR mode, of
\* unit empirical variance
ViewNormalised(self, i) ==
    /\ self.scores[i] = MatVec(views[i], self.weights[i])
    /\ ~self.maxvar => QuadForm(views[i], self.weights[i]) = R(NSamples)

\* C12: right after an update of view i that did not raise, the stored score
\* of view i is view_i @ weight_i for the weight just stored and, in SUMCOR
\* mode, weight.T @ view.T @ view @ weight = n_samples; at the end of a full
\* sweep this holds for every view.
C12_SumcorNormalised ==
    /\ [][(UpdatingView /\ m'.err = NoError) =>
            ViewNormalised(m', view_index + 1)]_vars
    /\ []((pc = "objective" /\ m.cls \in ElasticFamily) =>
            \A i \in 1..m.n_views : ViewNormalised(m, i))

\* C12 witness: a SUMCOR sweep over three views has ended; the first view
\* has column scale 2 and its weight was rescaled to 1/2
C12_Witness ==
    /\ pc = "objective"
    /\ m.cls \in ElasticFamily
    /\ ~m.maxvar
    /\ m.n_views = 3
    /\ views[1] = <<R(2)>>
    /\ m.weights[1] = <<Half>>
    /\ \A i \in 1..3 : QuadForm(views[i], m.weights[i]) = R(NSamples)

(* ======================== objective monotonicity ======================== *)
\* the objectives recorded so far never go up from one sweep to the next
NonIncreasing(track) ==
    \A k \in 2..Len(track) : ~Gt(track[k], track[k - 1])

Constructed(cls, stochastic, positive) ==
    IF cls = "ElasticCCA"
    THEN ElasticCCA_init(BaseObject(cls, m.n_views), m.c, m.l1_ratio,
                         m.maxvar, stochastic, positive)
    ELSE SCCA_IPLS_init(BaseObject(cls, m.n_views), m.tau,
                        m.maxvar, stochastic, positive)

NoSGD(self) ==
    \A i \in DOMAIN self.regressors : self.regressors[i].kind # "SGDRegressor"

\* C18: constructing an ElasticCCA or SCCA_IPLS with a positive constraint
\* (positive is not None) and stochastic=True warns and sets stochastic to
\* False, so a model that was given a positive constraint is never
\* stochastic and never gets an SGD regressor.
C18_PositiveSwitchesOffStochastic ==
    /\ [](\A cls \in ElasticFamily, st \in BOOLEAN,
             pos \in ParamChoices(BOOLEAN, m.n_views) :
             LET o == Constructed(cls, st, pos)
             IN  IF pos.kind # "None" /\ st
                 THEN o.warned /\ ~o.stochastic
                 ELSE ~o.warned /\ o.stochastic = st)
    /\ []((m.cls \in ElasticFamily /\ pc = "start" /\ m.positive.kind # "None") =>
            ~m.stochastic)
    /\ [][m'.stochastic = m.stochastic /\ m'.warned = m.warned]_vars
    /\ []((m.cls \in ElasticFamily /\ (m.warned \/ ~m.stochastic)) =>
            (~m.stochastic /\ NoSGD(m)))

\* C18 witness: an SCCA_IPLS that warned at construction has built its
\* regressors, none of them stochastic, and finished a sweep
C18_Witness ==
    /\ m.cls = "SCCA_IPLS"
    /\ m.warned
    /\ m.positive = List(<<TRUE, FALSE>>)
    /\ Len(m.regressors) = 2
    /\ NoSGD(m)
    /\ sweep >= 1

(* ============================== regressors ============================== *)
\* the regressors have been built
RegressorsBuilt == m.cls \in ElasticFamily /\ m.regressors # <<>>

\* C7 as stated: a view with l2 = c * (1 - l1_ratio) = 0 gets the ridge
\* solver with regulariser tol and that view's positive flag, every other
\* view an elastic net with that view's c and l1_ratio.
C7_RidgeWhenL2IsZero ==
    RegressorsBuilt =>
       /\ Len(m.regressors) = m.n_views
       /\ \A i \in 1..m.n_views :
             m.regressors[i] =
                IF IsZero(Mul(m.c.val[i], Sub(R(1), m.l1_ratio.val[i])))
                THEN Ridge(Tol, m.positive.val[i])
                ELSE ElasticNet(m.c.val[i], m.l1_ratio.val[i], m.positive.val[i])

\* C7 amended: without the stochastic option, a view with c = 0 gets the
\* ridge solver with regulariser tol and that view's positive flag, and
\* every view with c # 0 (l2 zero or not) an elastic net with that view's c,
\* l1_ratio and positive flag; with the stochastic option every view gets an
\* SGD regressor with that view's c and l1_ratio.
C7_RidgeWhenCIsZero ==
    RegressorsBuilt =>
       /\ Len(m.regressors) = m.n_views
       /\ \A i \in 1..m.n_views :
             m.regressors[i] =
                IF m.stochastic
                THEN SGDRegressor(m.c.val[i], m.l1_ratio.val[i], Tol)
                ELSE IF m.c.val[i] = R(0)
                THEN Ridge(Tol, m.positive.val[i])
                ELSE ElasticNet(m.c.val[i], m.l1_ratio.val[i], m.positive.val[i])

\* C7 witness: both views have l2 = 0; the one with c = 1 got an elastic
\* net (a lasso), the one with c = 0 the non-negative ridge solver
C7_Witness ==
    /\ RegressorsBuilt
    /\ m.cls = "ElasticCCA"
    /\ m.n_views = 2
    /\ m.c.val = <<R(1), R(0)>>
    /\ m.l1_ratio.val = <<R(1), R(1)>>
    /\ m.regressors = <<ElasticNet(R(1), R(1), FALSE), Ridge(Tol, TRUE)>>

(* ============================== SCCA_IPLS =============================== *)
\* C8: an SCCA_IPLS with tau = t and an ElasticCCA with c = t, l1_ratio = 1,
\* given the same views, maxvar, positive, stochastic, tol and random draws,
\* build the same per-view solvers, go through the same weights, scores and
\* targets, report the same objectives and fail alike.
C8_IPLSIsElasticL1 ==
    m.cls = "SCCA_IPLS" =>
       /\ ref.cls = "ElasticCCA"
       /\ ref.maxvar = m.maxvar /\ ref.stochastic = m.stochastic
       /\ SameParam(ref.positive, m.positive)
       /\ SameParam(ref.c, m.tau)
       /\ SameParam(ref.l1_ratio, m.l1_ratio)
       /\ ref.regressors = m.regressors
       /\ ref.weights = m.weights
       /\ ref.scores = m.scores
       /\ ref.target = m.target
       /\ ref.track = m.track
       /\ ref.err = m.err

\* C8 witness: a three-view SCCA_IPLS with distinct per-view tau has run two
\* sweeps, and its lasso and ridge solvers and two objectives are those of
\* the ElasticCCA
C8_Witness ==
    /\ m.cls = "SCCA_IPLS"
    /\ ref.cls = "ElasticCCA"
    /\ m.n_views = 3
    /\ sweep = 2
    /\ Len(m.track) = 2
    /\ m.track = ref.track
    /\ m.tau.val = <<R(0), R(1), R(1)>>
    /\ ref.c = m.tau
    /\ m.regressors[1].kind = "Ridge"
    /\ m.regressors[2] = ElasticNet(R(1), R(1), FALSE)
    /\ m.regressors = ref.regressors

(* ============================ span search =============================== *)
\* C9: max_obj is 0 when the span search of a latent dimension is
\* initialised and never decreases; a trial replaces it by its objective
\* b.T @ v exactly when that objective is strictly greater, and leaves it
\* unchanged otherwise.
C9_MaxObjMonotone ==
    /\ [][(pc = "checked" /\ m.cls = "SCCA_Span") =>
            m'.loop.max_obj = R(0)]_vars
    /\ [][(pc = "loop" /\ m.cls = "SCCA_Span") =>
            /\ m'.loop.max_obj = m.loop.max_obj
                  \/ Gt(m'.loop.max_obj, m.loop.max_obj)
            /\ m'.loop.max_obj = IF Gt(m'.loop.obj, m.loop.max_obj)
                                 THEN m'.loop.obj
                                 ELSE m.loop.max_obj]_vars
    /\ []((m.cls = "SCCA_Span" /\ m.loop # NoLoop) => ~Lt(m.loop.max_obj, R(0)))

\* C9 witness: after an accepted trial, a second trial with a positive but
\* smaller objective has left max_obj as it was
C9_Witness ==
    /\ m.cls = "SCCA_Span"
    /\ m.loop # NoLoop
    /\ sweep = 2
    /\ Gt(m.loop.max_obj, R(0))
    /\ Gt(m.loop.obj, R(0))
    /\ Lt(m.loop.obj, m.loop.max_obj)

\* C17: when positive is True for a view, the weights SCCA_Span stores for
\* that view, after any number of trials, have no negative entry.
C17_SpanPositiveWeights ==
    (m.cls = "SCCA_Span" /\ m.loop # NoLoop) =>
       \A i \in 1..2 :
          m.loop.positive.val[i] =>
             \A j \in DOMAIN m.weights[i] : ~Lt(m.weights[i][j], R(0))

\* C17 witness: positive is True for both views and an accepted trial has
\* stored a weight vector with a negative entry for the second view
C17_Witness ==
    /\ m.cls = "SCCA_Span"
    /\ m.loop # NoLoop
    /\ sweep >= 1
    /\ m.positive.val = <<TRUE, TRUE>>
    /\ m.loop.max_obj = m.loop.obj
    /\ \E j \in DOMAIN m.weights[2] : Lt(m.weights[2][j], R(0))

\* a span-search trial is about to run
SpanTrying == pc = "loop" /\ m.cls = "SCCA_Span"

\* the objective b.T @ v of the stored pair (u, v) = weights, with
\* b = Q @ diag(D) @ P.T @ u
IncumbentObjective(self) ==
    LET lp == self.loop
        u == self.weights[1]
        v == self.weights[2]
        b == AsSeq([j \in DOMAIN v |->
                SumSeq(AsSeq([k \in DOMAIN lp.Q |->
                          Mul(lp.Q[k][j], Mul(lp.D[k], Dot(lp.P[k], u)))]))])
    IN  Dot(b, v)

\* C19: an accepted trial stores its normalised (u, v) as the weights and
\* views[0] @ u, views[1] @ v as the scores, so that once a trial has been
\* accepted the stored pair is the one whose objective is max_obj; a
\* rejected trial (objective not greater than max_obj, or NaN) changes none
\* of max_obj, weights and scores.
C19_IncumbentPair ==
    /\ [][SpanTrying =>
            IF Gt(m'.loop.obj, m.loop.max_obj)
            THEN \E draw \in RandnDraws(m.loop.rank) :
                    LET t == TrialVectors(m, draw)
                    IN  /\ t.obj = m'.loop.obj
                        /\ m'.loop.max_obj = t.obj
                        /\ m'.weights = <<t.u, t.v>>
                        /\ m'.scores = <<MatVec(views[1], t.u), MatVec(views[2], t.v)>>
            ELSE /\ m'.loop.max_obj = m.loop.max_obj
                 /\ m'.weights = m.weights
                 /\ m'.scores = m.scores]_vars
    /\ []((m.cls = "SCCA_Span" /\ m.loop # NoLoop /\ Gt(m.loop.max_obj, R(0))) =>
            /\ IncumbentObjective(m) = m.loop.max_obj
            /\ \A i \in 1..2 :
                  /\ Dot(m.weights[i], m.weights[i]) = R(1)
                  /\ m.scores[i] = MatVec(views[i], m.weights[i]))

\* C19 witness: after an accepted trial a second trial with a smaller
\* objective was rejected, and the stored pair is still the accepted one,
\* whose objective is max_obj
C19_Witness ==
    /\ m.cls = "SCCA_Span"
    /\ m.loop # NoLoop
    /\ sweep = 2
    /\ Gt(m.loop.max_obj, m.loop.obj)
    /\ IncumbentObjective(m) = m.loop.max_obj
    /\ m.loop.rank = 2
    /\ m.scores = <<MatVec(views[1], m.weights[1]), MatVec(views[2], m.weights[2])>>

\* a trial whose objective is NaN, its u being all-zero, was rejected and
\* the initial weights are still in place
C19_NaNTrialRejected ==
    /\ m.cls = "SCCA_Span"
    /\ m.loop # NoLoop
    /\ sweep >= 1
    /\ IsNaN(m.loop.obj)
    /\ m.loop.max_obj = R(0)
    /\ ~VHasNaN(m.weights[1]) /\ ~VHasNaN(m.weights[2])

\* C10: fitting SCCA_Span with a number of views other than exactly 2
\* fails with a ConfigurationError during parameter checking, without
\* changing c, positive or the update rule, and neither the SVD of the
\* cross-covariance nor any trial is ever computed.
C10_SpanNeedsTwoViews ==
    /\ [][(pc = "start" /\ m.cls = "SCCA_Span" /\ m.n_views # 2) =>
            /\ pc' = "failed"
            /\ m'.err.kind = "ConfigurationError"
            /\ SameParam(m'.c, m.c)
            /\ SameParam(m'.positive, m.positive)
            /\ m'.update = m.update]_vars
    /\ []((m.cls = "SCCA_Span" /\ m.n_views # 2) =>
            (pc \in {"start", "failed"} /\ NothingComputed(m) /\ sweep = 0))

\* C10 witness: a three-view SCCA_Span failed, its scalar c still a scalar
C10_Witness ==
    /\ pc = "failed"
    /\ m.cls = "SCCA_Span"
    /\ m.n_views = 3
    /\ m.err = ConfigurationError
    /\ m.c.kind = "scalar"
    /\ m.positive.kind = "None"
    /\ m.update = "unset"

(* ========================= deep-wrapper claims ========================== *)
Fitted == dw.pc = "fitted"

\* C13: calling transform twice in a row on the same data with a fitted
\* model returns identical output both times; no state that influences the
\* output is changed by a transform call.
C13_TransformIdempotent ==
    Fitted => \A i, j \in 1..Len(dw.outs) : dw.outs[i].z = dw.outs[j].z

\* fit without a validation set leaves the model in training mode; two
\* DeepWrapper.transform calls on a model with dropout layers then draw
\* different masks
C13_Witness ==
    /\ Fitted
    /\ dw.encoder = "dropout"
    /\ ~dw.has_val
    /\ dw.training
    /\ Len(dw.outs) = 2
    /\ \A i \in 1..2 : dw.outs[i].via = "DeepWrapper.transform"
    /\ dw.outs[1].z.params = dw.outs[2].z.params
    /\ dw.outs[1].z # dw.outs[2].z

InFit == dw.pc \in {"fitting", "fitted"}

\* the best (smallest) of the first k validation losses
RECURSIVE BestOf(_, _)
BestOf(hist, k) ==
    IF k = 1 THEN hist[1]
    ELSE IF hist[k] < BestOf(hist, k - 1) THEN hist[k] ELSE BestOf(hist, k - 1)

FailedToImprove(hist, k) == k > 1 /\ ~(hist[k] < BestOf(hist, k - 1))

\* the number of consecutive epochs up to epoch k that failed to improve
RECURSIVE Stale(_, _)
Stale(hist, k) ==
    IF k = 0 \/ ~FailedToImprove(hist, k) THEN 0 ELSE 1 + Stale(hist, k - 1)

\* C15: in DeepWrapper.fit all epochs are trained when patience = 0; with
\* patience > 0 and a validation set, training stops as soon as the
\* validation loss has failed to improve on its best value for patience
\* consecutive epochs, and once stopped no training epoch, validation
\* epoch or scheduler step is executed in the remaining iterations.
C15_EarlyStopping ==
    /\ []((InFit /\ dw.patience = 0) =>
             (~dw.early_stop /\ dw.n_train = dw.epoch))
    /\ []((InFit /\ dw.patience > 0 /\ dw.has_val) =>
             LET hist == dw.val_hist
                 n == Len(hist)
             IN  /\ dw.early_stop <=>
                        \E k \in 1..n : Stale(hist, k) >= dw.patience
                 /\ dw.early_stop =>
                        /\ Stale(hist, n) = dw.patience
                        /\ \A k \in 1..(n - 1) : Stale(hist, k) < dw.patience
                        /\ dw.n_train = n
                        /\ dw.n_val = n
                 /\ ~dw.early_stop => (dw.n_train = dw.epoch /\ dw.n_val = dw.epoch))
    /\ [][(InFit /\ dw.early_stop) =>
             (/\ dw'.n_train = dw.n_train
              /\ dw'.n_val = dw.n_val
              /\ dw'.n_sched = dw.n_sched
              /\ dw'.params = dw.params)]_vars

\* a fit with patience 2 that stopped in its third epoch, after an
\* improvement in epoch 1 and two failures, and skipped the fourth
C15_Witness ==
    /\ Fitted
    /\ dw.patience = 2
    /\ dw.has_val
    /\ dw.model_scheduler
    /\ dw.early_stop
    /\ dw.epochs = 4
    /\ dw.epoch = 4
    /\ dw.n_train = 3
    /\ dw.n_val = 3
    /\ dw.n_sched = 3
    /\ dw.val_hist = <<2, 2, 3>>
    /\ dw.params = dw.best_model

\* an update_weights call has been made
Updated == dw.cls = "DeepWrapper" /\ dw.calls > 0

\* the operations of the last call other than the clipping
Stepping(ops) == SelectSeq(ops, LAMBDA op : op # "clip")

\* whether ops is a sequence of whole closure invocations separated by
\* parameter updates
RECURSIVE ClosureProtocol(_)
ClosureProtocol(ops) ==
    IF Len(ops) < 3 THEN ops = <<>>
    ELSE /\ SubSeq(ops, 1, 3) = Closure
         /\ LET rest == SubSeq(ops, 4, Len(ops))
            IN  IF rest # <<>> /\ Head(rest) = "update"
                THEN Len(rest) > 1 /\ ClosureProtocol(Tail(rest))
                ELSE ClosureProtocol(rest)

\* C16: DeepWrapper.update_weights performs, for any optimizer other than
\* LBFGS, exactly one zero-grad, loss evaluation, backward pass and
\* optimizer step per batch in that order; for LBFGS every invocation of
\* the closure handed to the optimizer zeroes the gradients, evaluates the
\* loss and backpropagates, possibly several times within one step.
C16_StepProtocol ==
    Updated =>
        IF dw.given_optimizer \in {"None", "LBFGS"}
        THEN Stepping(dw.ops) # <<>> /\ ClosureProtocol(Stepping(dw.ops))
        ELSE Stepping(dw.ops) = <<"zero_grad", "loss", "backward", "update">>

\* a wrapper constructed with an Adam optimizer whose update_weights call
\* raised AttributeError before any operation
C16_Witness ==
    /\ Updated
    /\ dw.given_optimizer = "Adam"
    /\ dw.optimizer = "unset"
    /\ dw.err = "AttributeError"
    /\ dw.ops = <<>>
    /\ dw.params = 0

\* the default LBFGS wrapper evaluates the loss several times in one call
C16_LBFGSClosure ==
    /\ Updated
    /\ dw.given_optimizer = "None"
    /\ dw.err = "none"
    /\ Len(SelectSeq(dw.ops, LAMBDA op : op = "loss")) > 2
    /\ ClosureProtocol(Stepping(dw.ops))

\* C20: in every DeepWrapper.update_weights call, for LBFGS and every
\* other optimizer alike, the gradients are clipped to clip_value after
\* the gradients of the current loss have been computed and before the
\* optimizer uses them to change the parameters.
C20_ClipBeforeUse ==
    Updated => \A i \in 1..Len(dw.used) : dw.used[i] = "clipped"

\* a default (LBFGS) wrapper whose call clipped first and then changed
\* the parameters with gradients computed after the clipping
C20_Witness ==
    /\ Updated
    /\ dw.optimizer = "LBFGS"
    /\ dw.err = "none"
    /\ Head(dw.ops) = "clip"
    /\ Len(dw.used) >= 1
    /\ \A i \in 1..Len(dw.used) : dw.used[i] = "raw"

\* the validation loss of the epoch just run is a new best
NewBest(hist) ==
    LET n == Len(hist)
    IN  n >= 1 /\ (n = 1 \/ hist[n] < BestOf(hist, n - 1))

\* C21: in DeepWrapper.fit with a validation set, after every epoch
\* min_val_loss is the smallest validation loss seen so far and best_model
\* is the parameter snapshot taken at the epoch that produced it; when fit
\* returns the model holds that snapshot, whether training ended by early
\* stopping or by exhausting epochs.
C21_BestModelKept ==
    [][(dw'.pc \in {"fitting", "fitted"} /\ dw'.has_val
            /\ Len(dw'.val_hist) >= 1) =>
          LET hist == dw'.val_hist
              ran == hist # dw.val_hist
          IN  /\ dw'.min_val_loss = BestOf(hist, Len(hist))
              /\ (ran /\ NewBest(hist)) => dw'.best_model = dw'.params
              /\ ~(ran /\ NewBest(hist)) => dw'.best_model = dw.best_model
              /\ dw'.pc = "fitted" => dw'.params = dw'.best_model]_vars

\* a fit with patience 0 over two epochs whose first epoch was the best:
\* fit has returned and the model holds the parameters of the second epoch
C21_Witness ==
    /\ Fitted
    /\ dw.has_val
    /\ dw.patience = 0
    /\ ~dw.early_stop
    /\ dw.epochs = 2
    /\ dw.val_hist = <<1, 2>>
    /\ dw.min_val_loss = 1
    /\ dw.calls = 0
    /\ dw.best_model = 1
    /\ dw.params = 2

\* the bookkeeping itself is right in every epoch, and an early stop
\* returns with the best snapshot loaded
C21_BestTracked ==
    [][(dw'.pc \in {"fitting", "fitted"} /\ dw'.has_val
            /\ Len(dw'.val_hist) >= 1) =>
          LET hist == dw'.val_hist
              ran == hist # dw.val_hist
          IN  /\ dw'.min_val_loss = BestOf(hist, Len(hist))
              /\ (ran /\ NewBest(hist)) => dw'.best_model = dw'.params
              /\ ~(ran /\ NewBest(hist)) => dw'.best_model = dw.best_model
              /\ dw'.early_stop => dw'.params = dw'.best_model]_vars

====
